---------------------------- MODULE Spec2Model ----------------------------
(***************************************************************************)
(* Model of the relocation-advisor endpoint (getApiKey, tryReadFileSync,   *)
(* the exported request handler) and of the two link highlighters of       *)
(* asset/shimmer.js.                                                       *)
(*                                                                         *)
(* JavaScript values are tagged records; a JavaScript string that the code *)
(* inspects (trim, includes, indexOf, slice, JSON.parse) is a sequence of  *)
(* one-character strings, so that those operations are computed and not    *)
(* assumed.  Literals that the code only writes out (response texts, city  *)
(* names) are plain TLA+ strings.                                          *)
(***************************************************************************)
EXTENDS Integers, Sequences, FiniteSets, TLC

VARIABLES
    \* ---- request handler (module.exports) ----
    pc,         \* position of the handler in its body
    method,     \* req.method
    body,       \* local `body`
    stream,     \* characters of the request stream not yet delivered
    d,          \* local `d`, the characters accumulated from 'data' events
    answers,    \* local `answers`
    OPENAI_KEY, \* local `OPENAI_KEY`
    resp,       \* local `resp`, the upstream response
    assistant,  \* local `assistant`
    res,        \* what was written to `res` (NoResponse until then)
    sent,       \* the outbound upstream requests issued
    logs,       \* what console.error received
    ops,        \* what the handler has done to the outside, and the stream to it
    \* ---- getApiKey called on its own ----
    env,        \* process.env and the file system getApiKey reads
    keyResult,  \* what getApiKey returned
    \* ---- link highlighters ----
    dom,        \* the anchors of the page, in document order
    page,       \* location.pathname and <body data-destinations>
    hl          \* the highlighter script's position, records and globals

handlerVars == <<pc, method, body, stream, d, answers, OPENAI_KEY, resp,
                 assistant, res, sent, logs, ops>>
keyVars     == <<env, keyResult>>
shimmerVars == <<dom, page, hl>>
vars        == <<handlerVars, keyVars, shimmerVars>>

-----------------------------------------------------------------------------
(* JavaScript values *)

Undef    == [t |-> "undefined"]
Null     == [t |-> "null"]
Bool(b)  == [t |-> "boolean", b |-> b]
Num(n)   == [t |-> "number", n |-> n]
Str(s)   == [t |-> "string", s |-> s]
Arr(a)   == [t |-> "array", a |-> a]
\* An object is its properties in insertion order, each <<key, value>>.
Obj(o)   == [t |-> "object", o |-> o]
EmptyObj == Obj(<< >>)

\* ToBoolean
Truthy(v) ==
    CASE v.t = "undefined" -> FALSE
      [] v.t = "null"      -> FALSE
      [] v.t = "boolean"   -> v.b
      [] v.t = "number"    -> v.n # 0
      [] v.t = "string"    -> v.s # << >>
      [] OTHER             -> TRUE

\* a || b
OrElse(a, b) == IF Truthy(a) THEN a ELSE b

\* Reading a property of undefined or null throws a TypeError.
CanRead(v) == v.t \notin {"undefined", "null"}

\* v[key] for a data property `key` (none of the keys the code reads is an
\* own or inherited data property of a string, number, boolean or array).
Get(v, key) ==
    IF v.t = "object"
    THEN LET hits == {i \in 1..Len(v.o) : v.o[i][1] = key}
         IN  IF hits = {} THEN Undef
             ELSE v.o[CHOOSE i \in hits : \A j \in hits : j <= i][2]
    ELSE Undef

\* Object.keys(v).length for a truthy v
KeysLength(v) ==
    CASE v.t = "object" -> Cardinality({v.o[i][1] : i \in 1..Len(v.o)})
      [] v.t = "array"  -> Len(v.a)
      [] v.t = "string" -> Len(v.s)
      [] OTHER          -> 0

-----------------------------------------------------------------------------
(* Strings as character sequences *)

IsWs(c) == c \in {" ", "\n", "\t", "\r"}

RECURSIVE TrimStart(_)
TrimStart(s) ==
    IF s # << >> /\ IsWs(Head(s)) THEN TrimStart(Tail(s)) ELSE s

RECURSIVE TrimEnd(_)
TrimEnd(s) ==
    IF s # << >> /\ IsWs(s[Len(s)]) THEN TrimEnd(SubSeq(s, 1, Len(s) - 1)) ELSE s

\* String.prototype.trim
Trim(s) == TrimEnd(TrimStart(s))

\* String.prototype.includes
StrIncludes(s, sub) ==
    \E i \in 1..(Len(s) - Len(sub) + 1) : SubSeq(s, i, i + Len(sub) - 1) = sub

\* String.prototype.indexOf for a one-character needle, 0-based, -1 if absent
IndexOf(s, c) ==
    LET hits == {i \in 1..Len(s) : s[i] = c}
    IN  IF hits = {} THEN -1
        ELSE (CHOOSE i \in hits : \A j \in hits : i <= j) - 1

\* String.prototype.slice(start) for 0 <= start
Slice(s, start) == SubSeq(s, start + 1, Len(s))

-----------------------------------------------------------------------------
(* JSON.parse and JSON.stringify, on the characters this model uses: no     *)
(* backslash escapes, no fractions or exponents.                           *)

Digits == <<"0", "1", "2", "3", "4", "5", "6", "7", "8", "9">>
IsDigit(c) == \E k \in 1..10 : Digits[k] = c
DigitVal(c) == (CHOOSE k \in 1..10 : Digits[k] = c) - 1

ParseFail == [ok |-> FALSE, v |-> Undef, i |-> 0]
Parsed(v, i) == [ok |-> TRUE, v |-> v, i |-> i]

RECURSIVE SkipWs(_, _)
SkipWs(s, i) == IF i <= Len(s) /\ IsWs(s[i]) THEN SkipWs(s, i + 1) ELSE i

\* the index of the closing quote of the string whose first character is at i
RECURSIVE StringEnd(_, _)
StringEnd(s, i) ==
    IF i > Len(s) \/ s[i] \in {"\n", "\t", "\r"} THEN 0
    ELSE IF s[i] = "\"" THEN i
    ELSE StringEnd(s, i + 1)

ParseString(s, i) ==
    IF i > Len(s) \/ s[i] # "\"" THEN ParseFail
    ELSE LET e == StringEnd(s, i + 1)
         IN  IF e = 0 THEN ParseFail
             ELSE Parsed(Str(SubSeq(s, i + 1, e - 1)), e + 1)

RECURSIVE DigitsEnd(_, _)
DigitsEnd(s, i) == IF i <= Len(s) /\ IsDigit(s[i]) THEN DigitsEnd(s, i + 1) ELSE i

RECURSIVE DigitsValue(_, _, _)
DigitsValue(s, i, e) ==
    IF e <= i THEN 0 ELSE 10 * DigitsValue(s, i, e - 1) + DigitVal(s[e - 1])

ParseNumber(s, i) ==
    LET neg == s[i] = "-"
        b   == IF neg THEN i + 1 ELSE i
        e   == DigitsEnd(s, b)
    IN  IF e = b THEN ParseFail
        ELSE IF s[b] = "0" /\ e > b + 1 THEN Parsed(Num(0), b + 1)
        ELSE Parsed(Num(IF neg THEN 0 - DigitsValue(s, b, e)
                               ELSE DigitsValue(s, b, e)), e)

ParseLiteral(s, i, word, v) ==
    IF i + Len(word) - 1 <= Len(s) /\ SubSeq(s, i, i + Len(word) - 1) = word
    THEN Parsed(v, i + Len(word)) ELSE ParseFail

RECURSIVE ParseValue(_, _), ParseMembers(_, _, _), ParseElements(_, _, _)

ParseValue(s, i0) ==
    LET i == SkipWs(s, i0)
    IN  IF i > Len(s) THEN ParseFail
        ELSE CASE s[i] = "{" ->
                    LET j == SkipWs(s, i + 1)
                    IN  IF j <= Len(s) /\ s[j] = "}"
                        THEN Parsed(EmptyObj, j + 1)
                        ELSE ParseMembers(s, j, << >>)
               [] s[i] = "[" ->
                    LET j == SkipWs(s, i + 1)
                    IN  IF j <= Len(s) /\ s[j] = "]"
                        THEN Parsed(Arr(<< >>), j + 1)
                        ELSE ParseElements(s, j, << >>)
               [] s[i] = "\"" -> ParseString(s, i)
               [] s[i] = "-" \/ IsDigit(s[i]) -> ParseNumber(s, i)
               [] s[i] = "t" -> ParseLiteral(s, i, <<"t", "r", "u", "e">>, Bool(TRUE))
               [] s[i] = "f" -> ParseLiteral(s, i, <<"f", "a", "l", "s", "e">>, Bool(FALSE))
               [] s[i] = "n" -> ParseLiteral(s, i, <<"n", "u", "l", "l">>, Null)
               [] OTHER -> ParseFail

\* members of an object, the next key expected at i; acc are those read so far
ParseMembers(s, i, acc) ==
    LET k == ParseString(s, i)
    IN  IF ~k.ok THEN ParseFail
        ELSE LET c == SkipWs(s, k.i)
             IN  IF c > Len(s) \/ s[c] # ":" THEN ParseFail
                 ELSE LET v == ParseValue(s, c + 1)
                      IN  IF ~v.ok THEN ParseFail
                          ELSE LET n    == SkipWs(s, v.i)
                                   acc2 == Append(acc, <<k.v.s, v.v>>)
                               IN  IF n > Len(s) THEN ParseFail
                                   ELSE IF s[n] = "}" THEN Parsed(Obj(acc2), n + 1)
                                   ELSE IF s[n] = ","
                                        THEN ParseMembers(s, SkipWs(s, n + 1), acc2)
                                   ELSE ParseFail

\* elements of an array, the next value expected at i
ParseElements(s, i, acc) ==
    LET v == ParseValue(s, i)
    IN  IF ~v.ok THEN ParseFail
        ELSE LET n    == SkipWs(s, v.i)
                 acc2 == Append(acc, v.v)
             IN  IF n > Len(s) THEN ParseFail
                 ELSE IF s[n] = "]" THEN Parsed(Arr(acc2), n + 1)
                 ELSE IF s[n] = "," THEN ParseElements(s, n + 1, acc2)
                 ELSE ParseFail

\* JSON.parse(s): [ok |-> TRUE, v |-> value], or ok = FALSE for a SyntaxError
JSONParse(s) ==
    LET r == ParseValue(s, 1)
    IN  IF r.ok /\ SkipWs(s, r.i) > Len(s)
        THEN [ok |-> TRUE, v |-> r.v]
        ELSE [ok |-> FALSE, v |-> Undef]

RECURSIVE NatToChars(_)
NatToChars(n) ==
    IF n < 10 THEN <<Digits[n + 1]>>
    ELSE NatToChars(n \div 10) \o <<Digits[(n % 10) + 1]>>

Quote(s) == <<"\"">> \o s \o <<"\"">>

RECURSIVE JSONStringify(_), StringifyMembers(_, _), StringifyElements(_)

\* JSON.stringify(v) for a v that is not undefined; an object's duplicate
\* keys do not arise (objects are built by JSONParse or written out here).
JSONStringify(v) ==
    CASE v.t = "null"    -> <<"n", "u", "l", "l">>
      [] v.t = "boolean" -> IF v.b THEN <<"t", "r", "u", "e">>
                                   ELSE <<"f", "a", "l", "s", "e">>
      [] v.t = "number"  -> IF v.n < 0 THEN <<"-">> \o NatToChars(0 - v.n)
                                       ELSE NatToChars(v.n)
      [] v.t = "string"  -> Quote(v.s)
      [] v.t = "array"   -> <<"[">> \o StringifyElements(v.a) \o <<"]">>
      [] v.t = "object"  -> <<"{">> \o StringifyMembers(v.o, TRUE) \o <<"}">>

StringifyMembers(o, first) ==
    IF o = << >> THEN << >>
    ELSE IF Head(o)[2].t = "undefined" THEN StringifyMembers(Tail(o), first)
    ELSE (IF first THEN << >> ELSE <<",">>)
         \o Quote(Head(o)[1]) \o <<":">> \o JSONStringify(Head(o)[2])
         \o StringifyMembers(Tail(o), FALSE)

StringifyElements(a) ==
    IF a = << >> THEN << >>
    ELSE (IF Head(a).t = "undefined" THEN <<"n", "u", "l", "l">>
          ELSE JSONStringify(Head(a)))
         \o (IF Len(a) > 1 THEN <<",">> ELSE << >>)
         \o StringifyElements(Tail(a))

-----------------------------------------------------------------------------
(* Credential resolution: tryReadFileSync and getApiKey *)

LocalKeyPath   == <<".", "/", "O", "P", "E", "N", "_", "A", "I", "_", "K", "E", "Y">>
SecretsKeyPath == <<"/", "r", "u", "n", "/", "s", "e", "c", "r", "e", "t", "s", "/", "O", "P", "E", "N", "_", "A", "I", "_", "K", "E", "Y">>

\* fs.readFileSync(path, 'utf8'): the content, or ok = FALSE when it throws
\* (no such file, no permission).  e.files maps the paths that exist.
ReadFileSync(e, path) ==
    IF path \in DOMAIN e.files THEN e.files[path]
    ELSE [ok |-> FALSE, content |-> << >>]

tryReadFileSync(e, path) ==
    LET f == ReadFileSync(e, path)
    IN  IF f.ok /\ Trim(f.content) # << >> THEN Str(Trim(f.content)) ELSE Null

\* steps 3, 4 and 5 of getApiKey, the three file sources
KeyFromFiles(e) ==
    LET fromFile == IF Truthy(e.OPEN_AI_KEY_FILE)
                    THEN tryReadFileSync(e, e.OPEN_AI_KEY_FILE.s) ELSE Null
        fromLocal      == tryReadFileSync(e, LocalKeyPath)
        fromRunSecrets == tryReadFileSync(e, SecretsKeyPath)
    IN  IF Truthy(fromFile) THEN fromFile
        ELSE IF Truthy(fromLocal) THEN fromLocal
        ELSE IF Truthy(fromRunSecrets) THEN fromRunSecrets
        ELSE Null

\* getApiKey with steps 1 and 2 in the other order
getApiKeyAlternateFirst(e) ==
    IF Truthy(e.OPEN_AI_KEY) /\ Trim(e.OPEN_AI_KEY.s) # << >>
    THEN Str(Trim(e.OPEN_AI_KEY.s))
    ELSE IF Truthy(e.OPENAI_API_KEY) /\ Trim(e.OPENAI_API_KEY.s) # << >>
    THEN Str(Trim(e.OPENAI_API_KEY.s))
    ELSE KeyFromFiles(e)

getApiKey(e) ==
    IF Truthy(e.OPENAI_API_KEY) /\ Trim(e.OPENAI_API_KEY.s) # << >>
    THEN Str(Trim(e.OPENAI_API_KEY.s))
    ELSE IF Truthy(e.OPEN_AI_KEY) /\ Trim(e.OPEN_AI_KEY.s) # << >>
    THEN Str(Trim(e.OPEN_AI_KEY.s))
    ELSE KeyFromFiles(e)

\* ---- the environments getApiKey is run in ----
CustomKeyPath == <<"/", "e", "t", "c", "/", "k", "e", "y">>

\* values of an environment variable meant to hold the key `k`
EnvKeyValues(k) ==
    {Undef, Str(<< >>), Str(<<" ">>), Str(<<k>>), Str(<<" ", k, "\n">>)}

\* states of a file meant to hold the key `k`
KeyFileStates(k) ==
    { [ok |-> FALSE, content |-> << >>],
      [ok |-> TRUE, content |-> << >>],
      [ok |-> TRUE, content |-> <<" ", "\n">>],
      [ok |-> TRUE, content |-> <<k, "\n">>] }

KeyFilePaths == {CustomKeyPath, LocalKeyPath, SecretsKeyPath}

KeyFileEnvValues ==
    {Undef, Str(<< >>), Str(CustomKeyPath), Str(<<" ">> \o CustomKeyPath)}

Envs ==
    { [OPENAI_API_KEY |-> a, OPEN_AI_KEY |-> b, OPEN_AI_KEY_FILE |-> p,
       files |-> (CustomKeyPath  :> c @@ LocalKeyPath :> l @@ SecretsKeyPath :> r)] :
        a \in EnvKeyValues("1"), b \in EnvKeyValues("2"), p \in KeyFileEnvValues,
        c \in KeyFileStates("3"), l \in KeyFileStates("4"),
        r \in KeyFileStates("5") }

NotReturned == [t |-> "pending"]

\* getApiKey() is called and returns
CallGetApiKey ==
    /\ keyResult = NotReturned
    /\ keyResult' = getApiKey(env)
    /\ UNCHANGED <<env, handlerVars, shimmerVars>>

-----------------------------------------------------------------------------
(* The request handler, module.exports = async (req, res) => ... *)

K_answers        == <<"a", "n", "s", "w", "e", "r", "s">>
K_destinations   == <<"d", "e", "s", "t", "i", "n", "a", "t", "i", "o", "n", "s">>
K_relocationType == <<"r", "e", "l", "o", "c", "a", "t", "i", "o", "n", "T", "y", "p", "e">>
K_choices        == <<"c", "h", "o", "i", "c", "e", "s">>
K_message        == <<"m", "e", "s", "s", "a", "g", "e">>
K_content        == <<"c", "o", "n", "t", "e", "n", "t">>
K_text           == <<"t", "e", "x", "t">>
S_panama         == <<"p", "a", "n", "a", "m", "a">>
S_belize         == <<"b", "e", "l", "i", "z", "e">>
S_work           == <<"w", "o", "r", "k">>

NoResponse    == [status |-> 0, kind |-> "none"]
\* res.status(st).send(text)
Send(st, text) == [status |-> st, kind |-> "send", text |-> text]
\* res.status(st).json(v)
Json(st, v)    == [status |-> st, kind |-> "json", json |-> v]

\* line 59: !body || Object.keys(body).length === 0
NeedsStreamRead(b) == ~Truthy(b) \/ KeysLength(b) = 0

\* lines 63-65: the 'end' listener's JSON.parse(d || '{}'), {} when it throws
ParseStreamBody(text) ==
    LET p == JSONParse(IF text = << >> THEN <<"{", "}">> ELSE text)
    IN  IF p.ok THEN p.v ELSE EmptyObj

\* line 70: body.answers || {}
AnswersOf(b) == OrElse(Get(b, K_answers), EmptyObj)

\* line 76: the destination list
Dests(a) ==
    LET dv == Get(a, K_destinations)
    IN  IF dv.t = "array" THEN dv.a
        ELSE IF Truthy(dv) THEN <<dv>> ELSE << >>

\* Array.prototype.includes for a string needle
ArrIncludes(list, needle) == \E i \in 1..Len(list) : list[i] = Str(needle)

\* line 77
Relocation(a) == OrElse(Get(a, K_relocationType), Str(<< >>))

\* v.includes(needle) is callable on strings and arrays only
HasIncludes(v) == v.t \in {"string", "array"}
Includes(v, needle) ==
    IF v.t = "string" THEN StrIncludes(v.s, needle) ELSE ArrIncludes(v.a, needle)

\* lines 78-81 reach relocation.includes with a value that has no such method
PickThrows(a) ==
    /\ ~ArrIncludes(Dests(a), S_panama)
    /\ ~ArrIncludes(Dests(a), S_belize)
    /\ Truthy(Relocation(a))
    /\ ~HasIncludes(Relocation(a))

\* lines 78-81 with the belize test ahead of the panama test
PickBelizeFirst(a) ==
    IF ArrIncludes(Dests(a), S_belize) THEN "Belize"
    ELSE IF ArrIncludes(Dests(a), S_panama) THEN "Panama"
    ELSE IF Truthy(Relocation(a)) /\ Includes(Relocation(a), S_work) THEN "Panama"
    ELSE "Costa Rica"

\* lines 78-81
Pick(a) ==
    IF ArrIncludes(Dests(a), S_panama) THEN "Panama"
    ELSE IF ArrIncludes(Dests(a), S_belize) THEN "Belize"
    ELSE IF Truthy(Relocation(a)) /\ Includes(Relocation(a), S_work) THEN "Panama"
    ELSE "Costa Rica"

FallbackScore == 75

\* lines 91-93 with the third entry's inner test on the wrong country
CityNamesThirdMixed(pick) ==
    << IF pick = "Costa Rica" THEN "San José"
       ELSE IF pick = "Panama" THEN "Panama City" ELSE "Belize City",
       IF pick = "Costa Rica" THEN "Guanacaste"
       ELSE IF pick = "Panama" THEN "Boquete" ELSE "San Pedro",
       IF pick = "Costa Rica" THEN "La Fortuna"
       ELSE IF pick = "Belize" THEN "David" ELSE "Caye Caulker" >>

\* lines 91-93
CityNames(pick) ==
    << IF pick = "Costa Rica" THEN "San José"
       ELSE IF pick = "Panama" THEN "Panama City" ELSE "Belize City",
       IF pick = "Costa Rica" THEN "Guanacaste"
       ELSE IF pick = "Panama" THEN "Boquete" ELSE "San Pedro",
       IF pick = "Costa Rica" THEN "La Fortuna"
       ELSE IF pick = "Panama" THEN "David" ELSE "Caye Caulker" >>

\* lines 83-95; a template literal is the sequence of its parts
FallbackRecommendation(pick) ==
    [ country |-> pick,
      score   |-> FallbackScore,
      reasons |-> << <<"Based on your selections, ", pick,
                       " aligns best with your priorities.">>,
                     <<"Good balance of lifestyle, services, and accessibility for your needs.">> >>,
      cities  |-> << [name |-> CityNames(pick)[1], reason |-> "Main hub with services"],
                     [name |-> CityNames(pick)[2], reason |-> "Popular expat/retirement spot"],
                     [name |-> CityNames(pick)[3], reason |-> "Leisure and nature options"] >> ]

MaxTokens == 400

\* lines 114-129: the request handed to fetch
UpstreamRequest(key, a) ==
    [ url           |-> "https://api.openai.com/v1/chat/completions",
      method        |-> "POST",
      authorization |-> <<"Bearer ", key.s>>,
      model         |-> "gpt-3.5-turbo",
      temperature   |-> "0.35",
      max_tokens    |-> MaxTokens,
      userAnswers   |-> JSONStringify(a) ]

\* x?.[0]
OptIndex0(v) ==
    CASE v.t = "array"  -> IF Len(v.a) >= 1 THEN v.a[1] ELSE Undef
      [] v.t = "string" -> IF Len(v.s) >= 1 THEN Str(<<v.s[1]>>) ELSE Undef
      [] OTHER          -> Undef

\* x?.key
OptGet(v, key) == IF CanRead(v) THEN Get(v, key) ELSE Undef

\* line 138: j.choices?.[0]?.message?.content || '' (j.choices throws on null)
AssistantOf(j) ==
    OrElse(OptGet(OptGet(OptIndex0(Get(j, K_choices)), K_message), K_content),
           Str(<< >>))

\* lines 141-149: the response relayed for the assistant content `a`
RelayResponse(a) ==
    IF a.t # "string"
    THEN Json(200, Obj(<< <<K_text, a>> >>))     \* a.indexOf is not a function
    ELSE LET start    == IndexOf(a.s, "{")
             jsonText == IF start >= 0 THEN Slice(a.s, start) ELSE a.s
             parsed   == JSONParse(jsonText)
         IN  IF parsed.ok THEN Json(200, parsed.v)
             ELSE Json(200, Obj(<< <<K_text, a>> >>))

\* resp.ok of node-fetch
RespOk(r) == 200 <= r.status /\ r.status <= 299

\* ---- the requests, environments and upstream answers the handler is run on ----

Methods == {"POST", "GET", "PUT"}

DestinationValues ==
    { Undef, Str(<< >>), Str(S_panama), Str(S_belize),
      Arr(<<Str(S_belize), Str(S_panama)>>), Arr(<<Str(S_panama), Str(S_belize)>>),
      Arr(<<Str(<<"P", "a", "n", "a", "m", "a">>)>>) }

RelocationValues ==
    { Undef, Str(<<"w", "o", "r", "k", " ", "v", "i", "s", "a">>), Str(<<"r", "e", "t", "i", "r", "e">>),
      Str(<<"n", "e", "t", "w", "o", "r", "k">>), Num(5) }

\* an object with the given properties, the undefined ones left out
Props(pairs) == Obj(SelectSeq(pairs, LAMBDA kv : kv[2] # Undef))

AnswersValues ==
    { Props(<< <<K_destinations, dv>>, <<K_relocationType, r>> >>) :
        dv \in DestinationValues, r \in RelocationValues }
    \cup { Null, Num(0), Str(<<"x">>) }

Bodies ==
    { Props(<< <<K_answers, a>> >>) : a \in AnswersValues }
    \cup { Undef, Null, EmptyObj, Num(5), Str(<<"h", "i">>), Arr(<< >>),
           Obj(<< <<<<"q">>, Num(1)>> >>) }

\* req.body as the platform hands it over
ReqBodies == Bodies

\* the raw request payload read from the stream: well-formed JSON of several
\* shapes, and texts that are not JSON
StreamBodies ==
    { Null, EmptyObj, Num(5), Bool(FALSE), Str(<<"h", "i">>), Arr(<< >>),
      Props(<< <<K_answers, Null>> >>),
      Props(<< <<K_answers, Str(<<"x">>)>> >>),
      Props(<< <<K_answers, Props(<< <<K_relocationType, Num(5)>> >>)>> >>),
      Props(<< <<K_answers,
                 Props(<< <<K_destinations, Arr(<<Str(S_belize), Str(S_panama)>>)>>,
                          <<K_relocationType, Str(<<"w", "o", "r", "k", " ", "v", "i", "s", "a">>)>> >>)>> >>) }

StreamTexts ==
    { JSONStringify(b) : b \in StreamBodies }
    \cup { << >>, <<" ">>, <<"{">>, <<"n", "u", "l">>,
           <<"{", "\"", "a", "n", "s", "w", "e", "r", "s", "\"", ":">>, <<"a", "n", "s", "w", "e", "r", "s", "=", "1">> }

NoFile == [ok |-> FALSE, content |-> << >>]
HandlerEnvs ==
    { e \in Envs :
        \/ e = [OPENAI_API_KEY |-> Undef, OPEN_AI_KEY |-> Undef,
                OPEN_AI_KEY_FILE |-> Undef,
                files |-> [q \in KeyFilePaths |-> NoFile]]
        \/ e = [OPENAI_API_KEY |-> Str(<<" ", "1", "\n">>), OPEN_AI_KEY |-> Undef,
                OPEN_AI_KEY_FILE |-> Undef,
                files |-> [q \in KeyFilePaths |-> NoFile]] }

UpstreamStatuses == {200, 201, 401, 429, 500}
UpstreamErrorTexts == {"", "{\"error\":{\"message\":\"Incorrect API key provided\"}}"}

\* the pieces assistant contents are made of, and how many of them at most
MaxPieces == 3
Pieces ==
    { <<"{">>, <<"}">>, <<"[">>, <<"]">>, <<"\"">>, <<"1">>, <<"a">>,
      <<"n", "u", "l", "l">> }

RECURSIVE ContentsOf(_)
ContentsOf(n) ==
    IF n = 0 THEN { << >> }
    ELSE LET shorter == ContentsOf(n - 1)
         IN  shorter \cup { c \o q : c \in shorter, q \in Pieces }

Contents == ContentsOf(MaxPieces)

Completion(content) ==
    Obj(<< <<K_choices,
             Arr(<< Obj(<< <<K_message, Obj(<< <<K_content, content>> >>)>> >>) >>)>> >>)

\* what resp.json() resolves to
UpstreamJson ==
    { Null, EmptyObj, Obj(<< <<K_choices, Arr(<< >>)>> >>),
      Completion(Null), Completion(Num(5)) }
    \cup { Completion(Str(c)) : c \in Contents }

\* ---- the handler's steps ----

\* line 55
MethodNotAllowed ==
    /\ pc = "start"
    /\ method # "POST"
    /\ res' = Send(405, "Method not allowed")
    /\ pc' = "done"
    /\ UNCHANGED <<method, body, stream, d, answers, OPENAI_KEY, resp, assistant,
                   sent, logs, ops, keyVars, shimmerVars>>

\* lines 58-62 reached whatever the method is
ReadReqBodyAnyMethod ==
    /\ pc = "start"
    /\ \E b \in ReqBodies :
         /\ body' = b
         /\ IF NeedsStreamRead(b)
            THEN /\ \E text \in StreamTexts : stream' = text
                 /\ ops' = ops \cup {"req.body", "req.on"}
                 /\ pc' = "readStream"
            ELSE /\ stream' = stream
                 /\ ops' = ops \cup {"req.body"}
                 /\ pc' = "answers"
    /\ UNCHANGED <<method, d, answers, OPENAI_KEY, resp, assistant, res, sent, logs,
                   keyVars, shimmerVars>>

\* lines 58-62: read req.body; when it is missing or empty, listen to the stream
ReadReqBody ==
    /\ pc = "start"
    /\ method = "POST"
    /\ \E b \in ReqBodies :
         /\ body' = b
         /\ IF NeedsStreamRead(b)
            THEN /\ \E text \in StreamTexts : stream' = text
                 /\ ops' = ops \cup {"req.body", "req.on"}
                 /\ pc' = "readStream"
            ELSE /\ stream' = stream
                 /\ ops' = ops \cup {"req.body"}
                 /\ pc' = "answers"
    /\ UNCHANGED <<method, d, answers, OPENAI_KEY, resp, assistant, res, sent, logs,
                   keyVars, shimmerVars>>

\* line 62: a 'data' event delivers the next chunk
StreamData ==
    /\ pc = "readStream"
    /\ \E k \in 1..Len(stream) :
         /\ d' = d \o SubSeq(stream, 1, k)
         /\ stream' = SubSeq(stream, k + 1, Len(stream))
    /\ UNCHANGED <<pc, method, body, answers, OPENAI_KEY, resp, assistant, res, sent,
                   logs, ops, keyVars, shimmerVars>>

\* lines 63-65: 'end' resolves the promise; the executor's `d` and the
\* stream are out of the handler's reach from here on
StreamEnd ==
    /\ pc = "readStream"
    /\ stream = << >>
    /\ body' = ParseStreamBody(d)
    /\ d' = << >>
    /\ ops' = ops \cup {"stream end"}
    /\ pc' = "answers"
    /\ UNCHANGED <<method, stream, answers, OPENAI_KEY, resp, assistant, res, sent,
                   logs, keyVars, shimmerVars>>

\* line 66: 'error' resolves the promise
StreamError ==
    /\ pc = "readStream"
    /\ body' = EmptyObj
    /\ d' = << >>
    /\ stream' = << >>
    /\ ops' = ops \cup {"stream error"}
    /\ pc' = "answers"
    /\ UNCHANGED <<method, answers, OPENAI_KEY, resp, assistant, res, sent,
                   logs, keyVars, shimmerVars>>

\* line 70; nothing catches the TypeError of reading a property of null
ExtractAnswers ==
    /\ pc = "answers"
    /\ IF CanRead(body)
       THEN /\ answers' = AnswersOf(body)
            /\ pc' = "getApiKey"
       ELSE /\ answers' = answers
            /\ pc' = "thrown"
    /\ UNCHANGED <<method, body, stream, d, OPENAI_KEY, resp, assistant, res, sent,
                   logs, ops, keyVars, shimmerVars>>

\* line 72
ResolveKey ==
    /\ pc = "getApiKey"
    /\ OPENAI_KEY' = getApiKey(env)
    /\ ops' = ops \cup {"getApiKey"}
    /\ pc' = IF Truthy(getApiKey(env)) THEN "callUpstream" ELSE "fallback"
    /\ UNCHANGED <<method, body, stream, d, answers, resp, assistant, res, sent, logs,
                   keyVars, shimmerVars>>

\* lines 75-97
Fallback ==
    /\ pc = "fallback"
    /\ IF PickThrows(answers)
       THEN /\ res' = res
            /\ pc' = "thrown"
       ELSE /\ res' = Json(200, FallbackRecommendation(Pick(answers)))
            /\ pc' = "done"
    /\ UNCHANGED <<method, body, stream, d, answers, OPENAI_KEY, resp, assistant,
                   sent, logs, ops, keyVars, shimmerVars>>

\* lines 99-129: build the prompt and issue the upstream call
CallUpstream ==
    /\ pc = "callUpstream"
    /\ sent' = Append(sent, UpstreamRequest(OPENAI_KEY, answers))
    /\ ops' = ops \cup {"fetch"}
    /\ pc' = "awaitFetch"
    /\ UNCHANGED <<method, body, stream, d, answers, OPENAI_KEY, resp, assistant,
                   res, logs, keyVars, shimmerVars>>

\* lines 150-153, reached from any await of the try block that rejects
ServerError(what) ==
    /\ logs' = Append(logs, <<"Server error:", what>>)
    /\ res' = Send(500, "Server error")
    /\ pc' = "done"

\* line 114: fetch rejects (network error, timeout)
FetchFails ==
    /\ pc = "awaitFetch"
    /\ ServerError("fetch failed")
    /\ UNCHANGED <<method, body, stream, d, answers, OPENAI_KEY, resp, assistant,
                   sent, ops, keyVars, shimmerVars>>

\* line 114: fetch resolves with the upstream's response
FetchResponds ==
    /\ pc = "awaitFetch"
    /\ \E st \in UpstreamStatuses : resp' = [status |-> st]
    /\ pc' = "checkOk"
    /\ UNCHANGED <<method, body, stream, d, answers, OPENAI_KEY, assistant, res,
                   sent, logs, ops, keyVars, shimmerVars>>

\* lines 131-135 with the upstream text sent on to the caller
UpstreamErrorRelaysText ==
    /\ pc = "checkOk"
    /\ ~RespOk(resp)
    /\ ops' = ops \cup {"resp.text"}
    /\ \E txt \in UpstreamErrorTexts :
         /\ logs' = Append(logs, <<"OpenAI error:", txt>>)
         /\ res' = Send(502, txt)
    /\ pc' = "done"
    /\ UNCHANGED <<method, body, stream, d, answers, OPENAI_KEY, resp, assistant,
                   sent, keyVars, shimmerVars>>

\* lines 131-135
UpstreamError ==
    /\ pc = "checkOk"
    /\ ~RespOk(resp)
    /\ ops' = ops \cup {"resp.text"}
    /\ \E txt \in UpstreamErrorTexts :
         logs' = Append(logs, <<"OpenAI error:", txt>>)
    /\ res' = Send(502, "OpenAI API error")
    /\ pc' = "done"
    /\ UNCHANGED <<method, body, stream, d, answers, OPENAI_KEY, resp, assistant,
                   sent, keyVars, shimmerVars>>

\* line 132: resp.text() rejects (the connection breaks while the body is read)
UpstreamErrorUnreadable ==
    /\ pc = "checkOk"
    /\ ~RespOk(resp)
    /\ ops' = ops \cup {"resp.text"}
    /\ ServerError("body read failed")
    /\ UNCHANGED <<method, body, stream, d, answers, OPENAI_KEY, resp, assistant,
                   sent, keyVars, shimmerVars>>

\* lines 137-138: resp.json() resolves and the content is taken out of it
ReadCompletion ==
    /\ pc = "checkOk"
    /\ RespOk(resp)
    /\ ops' = ops \cup {"resp.json"}
    /\ \E j \in UpstreamJson :
         IF CanRead(j)
         THEN /\ assistant' = AssistantOf(j)
              /\ pc' = "relay"
              /\ UNCHANGED <<logs, res>>
         ELSE /\ assistant' = assistant
              /\ ServerError("TypeError")
    /\ UNCHANGED <<method, body, stream, d, answers, OPENAI_KEY, resp, sent,
                   keyVars, shimmerVars>>

\* line 137: resp.json() rejects (the body is not JSON, or cannot be read)
CompletionUnreadable ==
    /\ pc = "checkOk"
    /\ RespOk(resp)
    /\ ops' = ops \cup {"resp.json"}
    /\ ServerError("invalid json response body")
    /\ UNCHANGED <<method, body, stream, d, answers, OPENAI_KEY, resp, assistant,
                   sent, keyVars, shimmerVars>>

\* lines 140-149
Relay ==
    /\ pc = "relay"
    /\ res' = RelayResponse(assistant)
    /\ pc' = "done"
    /\ UNCHANGED <<method, body, stream, d, answers, OPENAI_KEY, resp, assistant,
                   sent, logs, ops, keyVars, shimmerVars>>

ShimmerIdle ==
    /\ dom = << >>
    /\ page = [pathname |-> << >>, dataDestinations |-> Undef]
    /\ hl = [pc |-> "idle"]

HandlerIdle ==
    /\ pc = "idle"
    /\ method = "" /\ body = Undef /\ stream = << >> /\ d = << >>
    /\ answers = Undef /\ OPENAI_KEY = Undef /\ resp = [status |-> 0]
    /\ assistant = Undef /\ res = NoResponse /\ sent = << >> /\ logs = << >>
    /\ ops = {}

\* a request arrives
HandlerInit ==
    /\ pc = "start"
    /\ method \in Methods
    /\ body = Undef /\ stream = << >> /\ d = << >>
    /\ answers = Undef /\ OPENAI_KEY = Undef /\ resp = [status |-> 0]
    /\ assistant = Undef /\ res = NoResponse /\ sent = << >> /\ logs = << >>
    /\ ops = {}
    /\ env \in HandlerEnvs
    /\ keyResult = NotReturned
    /\ ShimmerIdle

HandlerNext ==
    \/ MethodNotAllowed
    \/ ReadReqBody
    \/ StreamData
    \/ StreamEnd
    \/ StreamError
    \/ ExtractAnswers
    \/ ResolveKey
    \/ Fallback
    \/ CallUpstream
    \/ FetchFails
    \/ FetchResponds
    \/ UpstreamError
    \/ UpstreamErrorUnreadable
    \/ ReadCompletion
    \/ CompletionUnreadable
    \/ Relay

Spec == HandlerInit /\ [][HandlerNext]_vars

\* getApiKey on its own, in every environment
KeyInit ==
    /\ HandlerIdle
    /\ ShimmerIdle
    /\ env \in Envs
    /\ keyResult = NotReturned

KeyNext == CallGetApiKey

KeySpec == KeyInit /\ [][KeyNext]_vars

-----------------------------------------------------------------------------
(* Properties of the request handler (specification Spec) *)

\* the handler has returned or thrown
Finished == pc \in {"done", "thrown"}

\* C1: a request whose method is not POST is answered 405 'Method not
\* allowed' and nothing else happens to it: req.body and the stream are not
\* read, getApiKey is not run, no upstream call is issued.
C1_NonPostIs405 ==
    method # "POST" =>
        /\ pc \in {"start", "done"}
        /\ pc = "done" => res = Send(405, "Method not allowed")
        /\ ops = {}
        /\ sent = << >>
        /\ body = Undef /\ d = << >> /\ OPENAI_KEY = Undef

C1_Witness == method = "GET" /\ pc = "done" /\ res.status = 405

\* a body that is no object with a usable (truthy) `answers` field
UnusableBody(b) == b.t # "object" \/ ~Truthy(Get(b, K_answers))

NormalResponses(r) ==
    \/ r.kind = "json" /\ r.status = 200
    \/ r = Send(502, "OpenAI API error")
    \/ r = Send(500, "Server error")

\* C2: for a POST whose body (req.body, or what the stream yielded) is
\* absent, empty or no JSON object with a usable `answers`, the handler goes on
\* with answers = {}, no exception escapes it, and it ends in a normal response.
C2_UnusableBodyIsEmptyAnswers ==
    (method = "POST" /\ pc \notin {"start", "readStream", "answers"}
        /\ UnusableBody(body))
    => /\ pc # "thrown"
       /\ answers = EmptyObj
       /\ pc = "done" => NormalResponses(res)

\* the fallback path: getApiKey ran and found no credential
OnFallbackPath == "getApiKey" \in ops /\ ~Truthy(OPENAI_KEY) /\ Finished

\* the destination list as the claim normalizes it
NormalizedDestinations(a) ==
    LET dv == Get(a, K_destinations)
    IN  CASE dv.t = "array"     -> dv.a
          [] dv.t = "undefined" -> << >>
          [] OTHER              -> <<dv>>

ListHas(list, word) == \E i \in 1..Len(list) : list[i] = Str(word)

RelocationHasWork(a) ==
    LET r == Get(a, K_relocationType)
    IN  r.t = "string" /\ \E i \in 1..Len(r.s) :
            i + 3 <= Len(r.s) /\ <<r.s[i], r.s[i + 1], r.s[i + 2], r.s[i + 3]>> = S_work

OverrideChain(a) ==
    CASE ListHas(NormalizedDestinations(a), S_panama) -> "Panama"
      [] ~ListHas(NormalizedDestinations(a), S_panama)
           /\ ListHas(NormalizedDestinations(a), S_belize) -> "Belize"
      [] ~ListHas(NormalizedDestinations(a), S_panama)
           /\ ~ListHas(NormalizedDestinations(a), S_belize)
           /\ RelocationHasWork(a) -> "Panama"
      [] OTHER -> "Costa Rica"

\* relocationType is what the data model says it is: a string, or absent
RelocationIsText(a) == Get(a, K_relocationType).t \in {"undefined", "string"}

CityTable ==
    [ c \in {"Costa Rica", "Panama", "Belize"} |->
        CASE c = "Costa Rica" -> <<"San José", "Guanacaste", "La Fortuna">>
          [] c = "Panama"     -> <<"Panama City", "Boquete", "David">>
          [] c = "Belize"     -> <<"Belize City", "San Pedro", "Caye Caulker">> ]

\* C5: every response of the fallback path has a country among the three,
\* score 75, two reasons and three cities, named as the table names them for
\* that country and in that order.
C5_FallbackShape ==
    (OnFallbackPath /\ pc = "done") =>
        /\ res.kind = "json"
        /\ res.json.country \in DOMAIN CityTable
        /\ res.json.score = 75
        /\ Len(res.json.reasons) = 2
        /\ Len(res.json.cities) = 3
        /\ \A i \in 1..3 : res.json.cities[i].name = CityTable[res.json.country][i]

C5_Witness ==
    /\ OnFallbackPath /\ pc = "done"
    /\ res.json.country = "Belize"
    /\ Get(answers, K_relocationType) = Num(5)

\* the upstream answered with a status outside 200-299
UpstreamRefused == "fetch" \in ops /\ resp.status # 0 /\ ~RespOk(resp)

\* C6 as stated: whenever the upstream answers with a non-success status the
\* handler responds 502 with the fixed body.
C6_NonSuccessIs502 ==
    (pc = "done" /\ UpstreamRefused) => res = Send(502, "OpenAI API error")

\* an await of the try block rejected and the catch of lines 150-153 ran
CaughtServerError == \E i \in 1..Len(logs) : logs[i][1] = "Server error:"

\* C6, amended: when the upstream answers with a non-success status the
\* response is 502 with the fixed body if the upstream text could be read and
\* 500 with the fixed 'Server error' body if reading it failed; either way the
\* body is one of the two fixed texts (nothing of the upstream text or of the
\* credential), the text goes to the log only, and the upstream body is never
\* JSON-parsed or relayed.
C6_NonSuccessIs502OrReadFailure ==
    (pc = "done" /\ UpstreamRefused) =>
        /\ "resp.text" \in ops
        /\ "resp.json" \notin ops
        /\ assistant = Undef
        /\ IF CaughtServerError
           THEN res = Send(500, "Server error")
           ELSE /\ res = Send(502, "OpenAI API error")
                /\ Len(logs) = 1 /\ logs[1][1] = "OpenAI error:"

C6_Witness ==
    /\ pc = "done" /\ UpstreamRefused
    /\ res.status = 502
    /\ Len(logs) = 1 /\ logs[1][2] # ""

\* C7: with a credential and a successful upstream call, an assistant
\* content with no '{' in it (so no JSON object) is answered 200 with
\* { text: <the content> }.
C7_NoObjectIsText ==
    (pc = "done" /\ "resp.json" \in ops /\ assistant.t = "string"
        /\ IndexOf(assistant.s, "{") = -1)
    => res = Json(200, Obj(<< <<K_text, assistant>> >>))

-----------------------------------------------------------------------------
(* Properties of getApiKey (specification KeySpec) *)

\* what source n holds: the trimmed text, << >> when it gives nothing
SourceText(e, n) ==
    LET file(path) == IF path \in DOMAIN e.files /\ e.files[path].ok
                      THEN Trim(e.files[path].content) ELSE << >>
        var(v) == IF v.t = "string" THEN Trim(v.s) ELSE << >>
    IN  CASE n = 1 -> var(e.OPENAI_API_KEY)
          [] n = 2 -> var(e.OPEN_AI_KEY)
          [] n = 3 -> IF e.OPEN_AI_KEY_FILE.t = "string"
                      THEN file(e.OPEN_AI_KEY_FILE.s) ELSE << >>
          [] n = 4 -> file(LocalKeyPath)
          [] n = 5 -> file(SecretsKeyPath)

FirstSource(e) ==
    LET good == {n \in 1..5 : SourceText(e, n) # << >>}
    IN  IF good = {} THEN 0 ELSE CHOOSE n \in good : \A m \in good : n <= m

\* C3: getApiKey returns the trimmed text of the first of the five sources,
\* in their order, that holds one; OPENAI_API_KEY wins over OPEN_AI_KEY when
\* both hold a key; a file that is missing or blank is passed over; the result
\* is null exactly when no source holds a key, and is otherwise a non-empty
\* string without surrounding white space.
C3_FirstSourceWins ==
    keyResult # NotReturned =>
        /\ IF FirstSource(env) = 0 THEN keyResult = Null
           ELSE keyResult = Str(SourceText(env, FirstSource(env)))
        /\ (SourceText(env, 1) # << >> /\ SourceText(env, 2) # << >>)
              => keyResult = Str(SourceText(env, 1))
        /\ keyResult # Null =>
              /\ keyResult.t = "string" /\ keyResult.s # << >>
              /\ ~IsWs(keyResult.s[1]) /\ ~IsWs(keyResult.s[Len(keyResult.s)])

C3_Witness ==
    /\ keyResult = Str(<<"1">>)
    /\ env.OPENAI_API_KEY = Str(<<" ", "1", "\n">>)
    /\ env.OPEN_AI_KEY = Str(<<"2">>)
    /\ env.files[LocalKeyPath].ok

-----------------------------------------------------------------------------
(* The link highlighters of asset/shimmer.js: variant A (lines 5-58) and    *)
(* variant B (lines 67-138), run one after the other when the script loads. *)

UpperLetters == <<"A", "B", "C", "D", "E", "F", "G", "H", "I", "J", "K", "L", "M", "N", "O", "P", "Q", "R", "S", "T", "U", "V", "W", "X", "Y", "Z">>
LowerLetters == <<"a", "b", "c", "d", "e", "f", "g", "h", "i", "j", "k", "l", "m", "n", "o", "p", "q", "r", "s", "t", "u", "v", "w", "x", "y", "z">>

LowerChar(c) ==
    IF \E k \in 1..Len(UpperLetters) : UpperLetters[k] = c
    THEN LowerLetters[CHOOSE k \in 1..Len(UpperLetters) : UpperLetters[k] = c]
    ELSE c

\* String.prototype.toLowerCase
ToLowerCase(s) == [i \in 1..Len(s) |-> LowerChar(s[i])]

\* String.prototype.split for a one-character separator
RECURSIVE SplitFrom(_, _, _)
SplitFrom(s, sep, cur) ==
    IF s = << >> THEN <<cur>>
    ELSE IF Head(s) = sep THEN <<cur>> \o SplitFrom(Tail(s), sep, << >>)
    ELSE SplitFrom(Tail(s), sep, Append(cur, Head(s)))

Split(s, sep) == SplitFrom(s, sep, << >>)

\* s.split('/').pop()
LastSegment(s) == LET parts == Split(s, "/") IN parts[Len(parts)]

EndsWith(s, suffix) ==
    Len(s) >= Len(suffix) /\ SubSeq(s, Len(s) - Len(suffix) + 1, Len(s)) = suffix

F_index     == <<"i", "n", "d", "e", "x", ".", "h", "t", "m", "l">>
F_costarica == <<"c", "o", "s", "t", "a", "r", "i", "c", "a", ".", "h", "t", "m", "l">>
F_panama    == <<"p", "a", "n", "a", "m", "a", ".", "h", "t", "m", "l">>
F_belize    == <<"b", "e", "l", "i", "z", "e", ".", "h", "t", "m", "l">>
F_about     == <<"a", "b", "o", "u", "t", ".", "h", "t", "m", "l">>
DotHtml     == <<".", "h", "t", "m", "l">>

\* lines 9 and 80
CurrentPage(pathname) ==
    ToLowerCase(IF LastSegment(pathname) = << >> THEN F_index
                ELSE LastSegment(pathname))

\* lines 29, 98, 125
FilenameOf(href) == ToLowerCase(LastSegment(href))

\* line 6
DestinationPagesA == <<F_costarica, F_panama, F_belize>>

\* lines 70-74
DestinationPagesB(attr) ==
    LET raw   == IF Truthy(attr) THEN attr.s ELSE << >>
        parts == Split(raw, ",")
        norm  == [i \in 1..Len(parts) |-> ToLowerCase(Trim(parts[i]))]
    IN  SelectSeq(norm, LAMBDA f : f # << >>)

InList(list, f) == \E i \in 1..Len(list) : list[i] = f

\* lines 12-16 and 83-86
SelectorsA ==
    << "header .max-w-7xl nav a[href$=\".html\"]",
       "#siteMenu nav a[href$=\".html\"]",
       "header a[href$=\".html\"]:not(#siteMenu a[href$=\".html\"])" >>
SelectorsB ==
    << "header nav a[href$=\".html\"]",
       "#siteMenu nav a[href$=\".html\"]" >>

\* Where an anchor sits: "topnav" is header > .max-w-7xl > nav, "menu" is the
\* nav of #siteMenu (outside the header), "brand" is in the header outside
\* any nav.  The places each selector reaches:
Reaches(sel) ==
    CASE sel = "header .max-w-7xl nav a[href$=\".html\"]" -> {"topnav"}
      [] sel = "#siteMenu nav a[href$=\".html\"]"         -> {"menu"}
      [] sel = "header a[href$=\".html\"]:not(#siteMenu a[href$=\".html\"])"
                                                          -> {"topnav", "brand"}
      [] sel = "header nav a[href$=\".html\"]"            -> {"topnav"}

\* the anchor matches the selector
Matches(sel, a) == a.where \in Reaches(sel) /\ EndsWith(a.href, DotHtml)

\* document.querySelectorAll(sel): the matching anchors in document order
RECURSIVE QueryFrom(_, _, _)
QueryFrom(doc, sel, i) ==
    IF i > Len(doc) THEN << >>
    ELSE (IF Matches(sel, doc[i]) THEN <<i>> ELSE << >>) \o QueryFrom(doc, sel, i + 1)

QuerySelectorAll(doc, sel) == QueryFrom(doc, sel, 1)

\* the anchors in the order the two forEach loops visit them
RECURSIVE ScanOrder(_, _)
ScanOrder(doc, sels) ==
    IF sels = << >> THEN << >>
    ELSE QuerySelectorAll(doc, Head(sels)) \o ScanOrder(doc, Tail(sels))

\* a Map from filename to anchor is its entries <<filename, anchor>> in
\* insertion order
MapHas(m, f) == \E k \in 1..Len(m) : m[k][1] = f
MapSet(m, f, i) ==
    IF MapHas(m, f)
    THEN [k \in 1..Len(m) |-> IF m[k][1] = f THEN <<f, i>> ELSE m[k]]
    ELSE Append(m, <<f, i>>)

\* lines 22-30, 93-99: the anchor is skipped
Skipped(a) == a.graphic \in {"img", "svg"} \/ a.href = << >> \/ FilenameOf(a.href) = << >>

\* lines 20-36: anchors.set(filename, a) for every anchor scanned
RECURSIVE CollectA(_, _, _)
CollectA(doc, order, m) ==
    IF order = << >> THEN m
    ELSE LET i == Head(order)
         IN  CollectA(doc, Tail(order),
                      IF Skipped(doc[i]) THEN m
                      ELSE MapSet(m, FilenameOf(doc[i].href), i))

\* lines 91-103 and 119-129: if (!anchors.has(filename)) anchors.set(filename, a)
RECURSIVE CollectB(_, _, _)
CollectB(doc, order, m) ==
    IF order = << >> THEN m
    ELSE LET i == Head(order)
             f == FilenameOf(doc[i].href)
         IN  CollectB(doc, Tail(order),
                      IF Skipped(doc[i]) \/ MapHas(m, f) THEN m
                      ELSE MapSet(m, f, i))

\* the filename the map records anchor i under
RecordedAs(m, i) == m[CHOOSE k \in 1..Len(m) : m[k][2] = i][1]
IsRecorded(m, i) == \E k \in 1..Len(m) : m[k][2] = i

\* lines 40, 107, 131 without the test against the current page
QualifiesOnCurrentToo(dests, current, f) == InList(dests, f)

\* lines 40, 107, 131
Qualifies(dests, current, f) == InList(dests, f) /\ f # current

\* lines 41-43: classList.add and the tabindex of variant A
HighlightA(a) ==
    [a EXCEPT !.classes = @ \cup {"shimmer"},
              !.tabindex = OrElse(@, Str(<<"0">>))]

\* lines 108, 132 with variant A's tabindex line carried over
HighlightBSetsTabindex(a) ==
    [a EXCEPT !.classes = @ \cup {"shimmer"},
              !.tabindex = OrElse(@, Str(<<"0">>))]

\* lines 108, 132
HighlightB(a) == [a EXCEPT !.classes = @ \cup {"shimmer"}]

\* lines 45, 110, 134
Unhighlight(a) == [a EXCEPT !.classes = @ \ {"shimmer"}]

\* lines 39-47
ApplyA(doc, m, dests, current) ==
    [i \in 1..Len(doc) |->
        IF ~IsRecorded(m, i) THEN doc[i]
        ELSE IF Qualifies(dests, current, RecordedAs(m, i)) THEN HighlightA(doc[i])
        ELSE Unhighlight(doc[i])]

\* lines 106-112 and 130-136
ApplyB(doc, m, dests, current) ==
    [i \in 1..Len(doc) |->
        IF ~IsRecorded(m, i) THEN doc[i]
        ELSE IF Qualifies(dests, current, RecordedAs(m, i)) THEN HighlightB(doc[i])
        ELSE Unhighlight(doc[i])]

\* ---- the pages the highlighters are run on ----

MaxAnchors == 2

Hrefs == { F_panama, <<"p", "a", "g", "e", "s", "/", "B", "e", "l", "i", "z", "e", ".", "h", "t", "m", "l">>, F_about }

\* an anchor element: text links anywhere, a logo image in the brand area,
\* an icon in the top navigation, panel links that may carry a tabindex
AnchorKinds ==
    { [href |-> h, where |-> w, graphic |-> g, classes |-> {"nav-link"},
       tabindex |-> ti] :
        h \in Hrefs, w \in {"topnav", "menu", "brand"},
        g \in {"none", "img", "svg"}, ti \in {Undef, Str(<<"-", "1">>)} }

Anchors ==
    { a \in AnchorKinds :
        /\ a.graphic = "img" => a.where = "brand"
        /\ a.graphic = "svg" => a.where = "topnav"
        /\ a.tabindex # Undef => a.where = "menu" }

Documents == UNION { [1..n -> Anchors] : n \in 0..MaxAnchors }

Pathnames == { <<"/">>, <<"/", "s", "i", "t", "e", "/", "P", "a", "n", "a", "m", "a", ".", "h", "t", "m", "l">> }

DataDestinations ==
    { Undef, Str(<<" ", ",", " ">>), Str(<<"P", "a", "n", "a", "m", "a", ".", "h", "t", "m", "l", " ", ",", " ", "a", "b", "o", "u", "t", ".", "h", "t", "m", "l", ",">>) }

\* ---- the steps ----

\* lines 5-58: variant A runs
RunVariantA ==
    /\ hl.pc = "load"
    /\ LET m == CollectA(dom, ScanOrder(dom, SelectorsA), << >>)
       IN  /\ dom' = ApplyA(dom, m, DestinationPagesA, CurrentPage(page.pathname))
           /\ hl' = [hl EXCEPT !.pc = "afterA", !.last = "A", !.recorded = m,
                               !.before = dom]
    /\ UNCHANGED <<page, handlerVars, keyVars>>

\* lines 67-138: variant B runs; it stops at line 77 when no destination is
\* given, and otherwise leaves window.__shimmerReapply behind
RunVariantB ==
    /\ hl.pc = "afterA"
    /\ LET dests == DestinationPagesB(page.dataDestinations)
           m     == CollectB(dom, ScanOrder(dom, SelectorsB), << >>)
       IN  IF dests = << >>
           THEN /\ dom' = dom
                /\ hl' = [hl EXCEPT !.pc = "loaded", !.last = "B", !.recorded = << >>,
                                    !.before = dom]
           ELSE /\ dom' = ApplyB(dom, m, dests, CurrentPage(page.pathname))
                /\ hl' = [hl EXCEPT !.pc = "loaded", !.last = "B", !.recorded = m,
                                    !.before = dom, !.reapply = TRUE]
    /\ UNCHANGED <<page, handlerVars, keyVars>>

\* lines 116-137: a caller invokes window.__shimmerReapply()
ShimmerReapply ==
    /\ hl.pc = "loaded"
    /\ hl.reapply
    /\ LET dests == DestinationPagesB(page.dataDestinations)
           m     == CollectB(dom, ScanOrder(dom, SelectorsB), << >>)
       IN  /\ dom' = ApplyB(dom, m, dests, CurrentPage(page.pathname))
           /\ hl' = [hl EXCEPT !.last = "reapply", !.recorded = m, !.before = dom]
    /\ UNCHANGED <<page, handlerVars, keyVars>>

\* the page changes under the script: something else toggles the class of an
\* anchor
ClassToggled ==
    /\ hl.pc = "loaded"
    /\ \E i \in 1..Len(dom) :
         dom' = [dom EXCEPT ![i].classes =
                    IF "shimmer" \in @ THEN @ \ {"shimmer"} ELSE @ \cup {"shimmer"}]
    /\ hl' = [hl EXCEPT !.last = "none", !.recorded = << >>, !.before = dom']
    /\ UNCHANGED <<page, handlerVars, keyVars>>

\* the page changes under the script: an anchor is taken out of the header
AnchorRemoved ==
    /\ hl.pc = "loaded"
    /\ \E i \in 1..Len(dom) :
         dom' = SubSeq(dom, 1, i - 1) \o SubSeq(dom, i + 1, Len(dom))
    /\ hl' = [hl EXCEPT !.last = "none", !.recorded = << >>, !.before = dom']
    /\ UNCHANGED <<page, handlerVars, keyVars>>

ShimmerInit ==
    /\ HandlerIdle
    /\ env \in HandlerEnvs /\ getApiKey(env) = Null
    /\ keyResult = NotReturned
    /\ dom \in Documents
    /\ page \in [pathname : Pathnames, dataDestinations : DataDestinations]
    /\ hl = [pc |-> "load", last |-> "none", recorded |-> << >>, before |-> dom,
             reapply |-> FALSE]

ShimmerNext ==
    \/ RunVariantA
    \/ RunVariantB
    \/ ShimmerReapply
    \/ ClassToggled
    \/ AnchorRemoved

ShimmerSpec == ShimmerInit /\ [][ShimmerNext]_vars

-----------------------------------------------------------------------------
(* Properties of the highlighters (specification ShimmerSpec) *)

\* a variant, or __shimmerReapply, has just run
AfterRun == hl.last \in {"A", "B", "reapply"}

Current == CurrentPage(page.pathname)

\* the destination set of the run that has just finished
DestinationSet ==
    IF hl.last = "A" THEN {F_costarica, F_panama, F_belize}
    ELSE LET l == DestinationPagesB(page.dataDestinations)
         IN  {l[k] : k \in 1..Len(l)}

HasShimmer(a) == "shimmer" \in a.classes

\* C8: after variant A, variant B or __shimmerReapply has run, every
\* recorded anchor carries the class 'shimmer' if and only if its normalized
\* filename is in the destination set and is not the current page's.
C8_ShimmerIffOtherDestination ==
    AfterRun =>
        \A k \in 1..Len(hl.recorded) :
            LET f == hl.recorded[k][1]
                a == dom[hl.recorded[k][2]]
            IN  /\ f = FilenameOf(a.href)
                /\ HasShimmer(a) <=> (f \in DestinationSet /\ f # Current)

C8_Witness ==
    /\ hl.last = "A"
    /\ Current = F_panama
    /\ \E k \in 1..Len(hl.recorded) :
         hl.recorded[k][1] = F_panama /\ ~HasShimmer(dom[hl.recorded[k][2]])
    /\ \E k \in 1..Len(hl.recorded) :
         hl.recorded[k][1] = F_belize /\ HasShimmer(dom[hl.recorded[k][2]])

\* anchor `now` is anchor `was` but for the presence of the class 'shimmer'
SameButShimmer(was, now) ==
    now = [was EXCEPT !.classes = IF HasShimmer(now) THEN @ \cup {"shimmer"}
                                  ELSE @ \ {"shimmer"}]

\* what C9 says of anchors with a graphic, of anchors not recorded and of a
\* variant B without destinations
UntouchedAnchors ==
    /\ Len(dom) = Len(hl.before)
    /\ \A i \in 1..Len(dom) :
         (dom[i].graphic # "none" \/ ~IsRecorded(hl.recorded, i))
            => dom[i] = hl.before[i]
    /\ (hl.last = "B" /\ DestinationPagesB(page.dataDestinations) = << >>)
            => dom = hl.before /\ ~hl.reapply

\* C9 as stated: a run changes nothing but the presence of 'shimmer' on
\* recorded anchors, in both variants; anchors holding an img or svg are never
\* modified; variant B without destinations leaves the DOM as it was.
C9_OnlyShimmerClassChanges ==
    AfterRun =>
        /\ UntouchedAnchors
        /\ \A i \in 1..Len(dom) : SameButShimmer(hl.before[i], dom[i])

\* C9, amended: as stated for variant B and __shimmerReapply; variant A
\* changes, besides the class, the tabindex attribute of each recorded anchor
\* it gives the class to: it sets it to "0" where it was absent or empty.
C9_OnlyShimmerAndTabindexOfA ==
    AfterRun =>
        /\ UntouchedAnchors
        /\ \A i \in 1..Len(dom) :
             LET gainsTabindex ==
                    /\ hl.last = "A"
                    /\ IsRecorded(hl.recorded, i) /\ HasShimmer(dom[i])
                    /\ ~Truthy(hl.before[i].tabindex)
             IN  SameButShimmer(
                    [hl.before[i] EXCEPT !.tabindex =
                        IF gainsTabindex THEN Str(<<"0">>) ELSE @],
                    dom[i])

C9_Witness ==
    /\ hl.last = "A"
    /\ \E i \in 1..Len(dom) :
         /\ hl.before[i].tabindex = Undef /\ dom[i].tabindex = Str(<<"0">>)
    /\ \E i \in 1..Len(dom) :
         /\ hl.before[i].tabindex = Str(<<"-", "1">>) /\ dom[i] # hl.before[i]
         /\ HasShimmer(dom[i])

\* the first anchor in scan order that is recorded under filename f
FirstScanned(doc, sels, f) ==
    LET order == ScanOrder(doc, sels)
        hits  == {k \in 1..Len(order) :
                    ~Skipped(doc[order[k]]) /\ FilenameOf(doc[order[k]].href) = f}
    IN  order[CHOOSE k \in hits : \A j \in hits : k <= j]

\* C10: in both variants the anchor recorded for a filename is the first
\* one met in scan order; later anchors of the same filename never replace it.
C10_FirstOccurrenceWins ==
    AfterRun =>
        \A k \in 1..Len(hl.recorded) :
            hl.recorded[k][2] =
                FirstScanned(dom, IF hl.last = "A" THEN SelectorsA ELSE SelectorsB,
                             hl.recorded[k][1])

=============================================================================
